---- MODULE Spec2Model ----
\* The chain synchronizer of src/src/catapult/chain/ChainSynchronizer.cpp:
\* UnprocessedElements (the bookkeeping of block ranges handed to the disruptor),
\* RangeAggregator, the block pull (ChainBlocksFrom / CompleteChainBlocksFrom) and
\* DefaultChainSynchronizer (gate, compare, dispatch, release), with the remote peer
\* and the disruptor as the environment.
EXTENDS Integers, Sequences, FiniteSets, TLC

\* ------------------------------------------------------------------ bounds
\* concurrent invocations of the synchronizer on one instance
NumInvokers == 2
\* the ids the block range consumer hands out wrap to 1 after this one
MaxElementId == 3
\* config.MaxChainBytesPerSyncAttempt
MaxChainBytesPerSyncAttempt == 1
\* size in bytes of one block of the peer's chain
BlockBytes == 1
\* height of the peer's last block
PeerTip == 4
\* largest common block height a real chain comparison reports
MaxCommonHeight == 1
\* largest fork depth a real chain comparison reports
MaxForkDepth == 3
\* most blocks the peer puts in one blocksFrom reply
MaxReplyBlocks == 2
\* most heights the peer's reply skips after the requested one
MaxReplySkip == 1
\* most transactions the peer puts in one unconfirmedTransactions reply
MaxTransactions == 1

\* ------------------------------------------------------------------ values
Invokers == 1 .. NumInvokers

Normal == "Normal"
Aborted == "Aborted"
CompletionStatus == {Normal, Aborted}

Success == "Success"
Neutral == "Neutral"
Failure == "Failure"
NoResult == "NoResult"
NodeInteractionResult == {Success, Neutral, Failure}

Remote_Reported_Equal_Chain_Score == "Remote_Reported_Equal_Chain_Score"
Remote_Reported_Lower_Chain_Score == "Remote_Reported_Lower_Chain_Score"
Remote_Is_Not_Synced == "Remote_Is_Not_Synced"
Remote_Is_Forked == "Remote_Is_Forked"
Remote_Reported_Higher_Score_But_No_Blocks == "Remote_Reported_Higher_Score_But_No_Blocks"
ChainComparisonCode ==
    { Remote_Reported_Equal_Chain_Score, Remote_Reported_Lower_Chain_Score,
      Remote_Is_Not_Synced, Remote_Is_Forked, Remote_Reported_Higher_Score_But_No_Blocks }

\* a block range is the sequence of its blocks' heights
RangeFrom(h, n) == [k \in 1 .. n |-> h + k - 1]
totalSize(range) == Len(range) * BlockBytes
EndHeightOf(range) == range[Len(range)]

RECURSIVE SumBytes(_)
SumBytes(elements) ==
    IF elements = <<>> THEN 0 ELSE Head(elements).NumBytes + SumBytes(Tail(elements))

RECURSIVE MergeRanges(_)
MergeRanges(ranges) ==
    IF ranges = <<>> THEN <<>> ELSE Head(ranges) \o MergeRanges(Tail(ranges))

\* ------------------------------------------------------------------ state
VARIABLES
    unprocessed,        \* the UnprocessedElements object
    nextId,             \* the id the block range consumer returns next
    pc,                 \* per invocation: its position in operator()
    round,              \* per invocation: the temporaries of its future chain
    obs,                \* per invocation: what it did (peer calls, handoffs, clears)
    last,               \* the temporaries and the doings of the invocation that resolved last,
                        \* kept until the next round starts
    startsSinceClear,   \* shouldStartSync calls that returned true since the last clearPendingSync
    abortPending,       \* a remove carried a non-Normal status while an operation was
                        \* pending, and quiescence has not been reached since
    thrown              \* the step just taken was a remove that threw

vars == <<unprocessed, nextId, pc, round, obs, last, startsSinceClear, abortPending, thrown>>

\* ------------------------------------------------------------------ UnprocessedElements
m_maxSize == 3 * MaxChainBytesPerSyncAttempt

ElementInfo(id, endHeight, numBytes) ==
    [Id |-> id, EndHeight |-> endHeight, NumBytes |-> numBytes]

UnprocessedElements ==
    [m_spinLock |-> FALSE, m_elements |-> <<>>, m_numBytes |-> 0,
     m_hasPendingSync |-> FALSE, m_dirty |-> FALSE]

\* variant: add does not hold the lock while the block range consumer runs
SpinLock_lock_Released(u) == u

\* the lock is taken by a guard that lives across steps; every other guard is taken
\* and released within one step, which needs the lock to be free
SpinLock_lock(u) == [u EXCEPT !.m_spinLock = TRUE]

SpinLock_unlock(u) == [u EXCEPT !.m_spinLock = FALSE]

SpinLock_free(u) == ~u.m_spinLock

hasPendingOperation(u) == 0 # u.m_numBytes \/ u.m_hasPendingSync

numBytes(u) == u.m_numBytes

empty(u) == 0 = numBytes(u)

\* variant: the test of m_hasPendingSync is missing
shouldStartSync_IgnoresPendingSync(u) ==
    IF u.m_numBytes >= m_maxSize \/ u.m_dirty
    THEN [ret |-> FALSE, u |-> u]
    ELSE [ret |-> TRUE, u |-> [u EXCEPT !.m_hasPendingSync = TRUE]]

\* variant: the test of m_numBytes against m_maxSize is missing
shouldStartSync_IgnoresNumBytes(u) ==
    IF u.m_hasPendingSync \/ u.m_dirty
    THEN [ret |-> FALSE, u |-> u]
    ELSE [ret |-> TRUE, u |-> [u EXCEPT !.m_hasPendingSync = TRUE]]

\* variant: the byte test is > where the code has >=
shouldStartSync_AdmitsAtCap(u) ==
    IF u.m_numBytes > m_maxSize \/ u.m_hasPendingSync \/ u.m_dirty
    THEN [ret |-> FALSE, u |-> u]
    ELSE [ret |-> TRUE, u |-> [u EXCEPT !.m_hasPendingSync = TRUE]]

shouldStartSync(u) ==
    IF u.m_numBytes >= m_maxSize \/ u.m_hasPendingSync \/ u.m_dirty
    THEN [ret |-> FALSE, u |-> u]
    ELSE [ret |-> TRUE, u |-> [u EXCEPT !.m_hasPendingSync = TRUE]]

maxHeight(u) ==
    IF u.m_elements = <<>> THEN 0 ELSE u.m_elements[Len(u.m_elements)].EndHeight

\* add, after m_blockRangeConsumer returned newId for the range
add_emplace(u, range, newId) ==
    LET info == ElementInfo(newId, EndHeightOf(range), totalSize(range)) IN
    [u EXCEPT !.m_numBytes = @ + info.NumBytes,
              !.m_elements = Append(@, info)]

\* variant: m_dirty is not tested
add_IgnoresDirty(u, range, newId) ==
    [ret |-> TRUE, u |-> add_emplace(u, range, newId)]

\* newId is the id the block range consumer returns for the range
add(u, range, newId) ==
    IF u.m_dirty
    THEN [ret |-> FALSE, u |-> u]
    ELSE [ret |-> TRUE, u |-> add_emplace(u, range, newId)]

\* variant: the head is popped but m_numBytes is not decremented
remove_KeepsNumBytes(u, id, status) ==
    LET info == Head(u.m_elements) IN
    IF info.Id # id
    THEN [threw |-> TRUE, u |-> u]
    ELSE LET popped == [u EXCEPT !.m_elements = Tail(@)] IN
         [threw |-> FALSE,
          u |-> [popped EXCEPT !.m_dirty = hasPendingOperation(popped) /\ Normal # status]]

\* variant: m_dirty is set on any non-Normal status, pending operation or not
remove_DirtyOnAnyAbort(u, id, status) ==
    LET info == Head(u.m_elements) IN
    IF info.Id # id
    THEN [threw |-> TRUE, u |-> u]
    ELSE [threw |-> FALSE,
          u |-> [u EXCEPT !.m_numBytes = @ - info.NumBytes,
                          !.m_elements = Tail(@),
                          !.m_dirty = Normal # status]]

\* variant: the head is popped whatever id is passed
remove_IgnoresId(u, id, status) ==
    LET info == Head(u.m_elements)
        popped == [u EXCEPT !.m_numBytes = @ - info.NumBytes,
                            !.m_elements = Tail(@)] IN
    [threw |-> FALSE,
     u |-> [popped EXCEPT !.m_dirty = hasPendingOperation(popped) /\ Normal # status]]

\* variant: m_dirty, once set, is kept by a later remove
remove_KeepsDirty(u, id, status) ==
    LET info == Head(u.m_elements) IN
    IF info.Id # id
    THEN [threw |-> TRUE, u |-> u]
    ELSE LET popped == [u EXCEPT !.m_numBytes = @ - info.NumBytes,
                                 !.m_elements = Tail(@)] IN
         [threw |-> FALSE,
          u |-> [popped EXCEPT
                    !.m_dirty = @ \/ (hasPendingOperation(popped) /\ Normal # status)]]

\* the queue is not empty
remove(u, id, status) ==
    LET info == Head(u.m_elements) IN
    IF info.Id # id
    THEN [threw |-> TRUE, u |-> u]
    ELSE LET popped == [u EXCEPT !.m_numBytes = @ - info.NumBytes,
                                 !.m_elements = Tail(@)] IN
         [threw |-> FALSE,
          u |-> [popped EXCEPT !.m_dirty = hasPendingOperation(popped) /\ Normal # status]]

\* variant: m_dirty is not recomputed
clearPendingSync_KeepsDirty(u) ==
    [u EXCEPT !.m_hasPendingSync = FALSE]

clearPendingSync(u) ==
    LET cleared == [u EXCEPT !.m_hasPendingSync = FALSE] IN
    IF cleared.m_dirty
    THEN [cleared EXCEPT !.m_dirty = hasPendingOperation(cleared)]
    ELSE cleared

\* ------------------------------------------------------------------ helpers
\* variant: Remote_Is_Forked is mapped to Neutral
ToNodeInteractionResult_ForkedIsNeutral(code) ==
    IF code \in {Remote_Reported_Equal_Chain_Score, Remote_Reported_Lower_Chain_Score,
                 Remote_Is_Forked}
    THEN Neutral
    ELSE Failure

ToNodeInteractionResult(code) ==
    IF code \in {Remote_Reported_Equal_Chain_Score, Remote_Reported_Lower_Chain_Score}
    THEN Neutral
    ELSE Failure

RangeAggregator == [m_numBlocks |-> 0, m_ranges |-> <<>>]

RangeAggregator_add(agg, range) ==
    [m_numBlocks |-> agg.m_numBlocks + Len(range), m_ranges |-> Append(agg.m_ranges, range)]

\* variant: the ranges are merged last first
RangeAggregator_merge_LastFirst(agg) ==
    MergeRanges([k \in 1 .. Len(agg.m_ranges) |-> agg.m_ranges[Len(agg.m_ranges) - k + 1]])

RangeAggregator_merge(agg) == MergeRanges(agg.m_ranges)

RangeAggregator_empty(agg) == 0 = agg.m_numBlocks

CompareChainsResult(code, commonBlockHeight, forkDepth) ==
    [Code |-> code, CommonBlockHeight |-> commonBlockHeight, ForkDepth |-> forkDepth]

NoCompareResult == CompareChainsResult("None", 0, 0)

\* ------------------------------------------------------------------ per invocation
\* the temporaries of one invocation's future chain
NewRound ==
    [result |-> NoResult, compareResult |-> NoCompareResult, height |-> 0,
     forkDepth |-> 0, aggregator |-> RangeAggregator]

\* what one invocation did: the operands and result of its shouldStartSync call,
\* its peer calls in order, the peer call that failed, its clearPendingSync calls, the
\* ranges it handed to the block range consumer and the sizes of the ranges it handed
\* to the transaction range consumer
NewObs ==
    [gate |-> <<>>, calls |-> <<>>, failed |-> "none", clears |-> 0,
     blocks |-> <<>>, txs |-> <<>>]

CompareCall == [api |-> "compareChains", height |-> 0]
BlocksFromCall(h) == [api |-> "blocksFrom", height |-> h]
TransactionsCall == [api |-> "unconfirmedTransactions", height |-> 0]

NoLast == [round |-> NewRound, obs |-> NewObs]

Quiescent(u) == u.m_numBytes = 0 /\ ~u.m_hasPendingSync

Init ==
    /\ unprocessed = UnprocessedElements
    /\ nextId = 1
    /\ pc = [i \in Invokers |-> "idle"]
    /\ round = [i \in Invokers |-> NewRound]
    /\ obs = [i \in Invokers |-> NewObs]
    /\ last = NoLast
    /\ startsSinceClear = 0
    /\ abortPending = FALSE
    /\ thrown = FALSE

Goto(i, newPc, newRound, newObs) ==
    /\ pc' = [pc EXCEPT ![i] = newPc]
    /\ round' = [round EXCEPT ![i] = newRound]
    /\ obs' = [obs EXCEPT ![i] = newObs]
    /\ last' = last

\* shouldStartSync returned true: the round of invocation i begins
Begin(i, ob) ==
    /\ pc' = [pc EXCEPT ![i] = "compareChains"]
    /\ round' = round
    /\ obs' = [obs EXCEPT ![i] = ob]
    /\ last' = NoLast

\* the future operator() returned is ready: the invocation is over
Finish(i, rnd, ob) ==
    /\ pc' = [pc EXCEPT ![i] = "idle"]
    /\ round' = [round EXCEPT ![i] = NewRound]
    /\ obs' = [obs EXCEPT ![i] = NewObs]
    /\ last' = [round |-> rnd, obs |-> ob]

Shared(u, id, starts, abortedNow) ==
    /\ unprocessed' = u
    /\ nextId' = id
    /\ startsSinceClear' = starts
    /\ abortPending' = (~Quiescent(u) /\ (abortPending \/ abortedNow))
    /\ thrown' = FALSE

SharedUnchanged == Shared(unprocessed, nextId, startsSinceClear, FALSE)

\* variant: a round that fails returns without reaching the continuation that
\* calls clearPendingSync
Resolve_SkipsReleaseOnFailure(i, res, rnd, ob) ==
    IF res = Failure
    THEN Finish(i, [rnd EXCEPT !.result = res], ob)
    ELSE Goto(i, "clearPendingSync", [rnd EXCEPT !.result = res], ob)

\* the inner future of operator() resolves with res: the continuation that calls
\* clearPendingSync runs next
Resolve(i, res, rnd, ob) ==
    Goto(i, "clearPendingSync", [rnd EXCEPT !.result = res], ob)

\* ------------------------------------------------------------------ the block pull
\* variant: the result of add is ignored and the round always reports Success
CompleteChainBlocksFrom_IgnoresAddResult(i, agg, rnd, ob) ==
    IF RangeAggregator_empty(agg)
    THEN /\ Resolve(i, Neutral, [rnd EXCEPT !.aggregator = agg], ob)
         /\ SharedUnchanged
    ELSE LET mergedRange == RangeAggregator_merge(agg)
             r == add(unprocessed, mergedRange, nextId)
         IN /\ SpinLock_free(unprocessed)
            /\ IF r.ret
               THEN /\ Goto(i, "add", [rnd EXCEPT !.aggregator = agg], ob)
                    /\ Shared(SpinLock_lock(unprocessed), nextId, startsSinceClear, FALSE)
               ELSE /\ Resolve(i, Success, [rnd EXCEPT !.aggregator = agg], ob)
                    /\ SharedUnchanged

\* with blocks in the aggregator: add takes the lock, tests m_dirty and, when it is
\* clear, hands the merged range to the block range consumer, which holds it (and the
\* completion callback) from here on; add goes on in addCompleted
CompleteChainBlocksFrom(i, agg, rnd, ob) ==
    IF RangeAggregator_empty(agg)
    THEN /\ Resolve(i, Neutral, [rnd EXCEPT !.aggregator = agg], ob)
         /\ SharedUnchanged
    ELSE LET mergedRange == RangeAggregator_merge(agg)
             r == add(unprocessed, mergedRange, nextId)
         IN /\ SpinLock_free(unprocessed)
            /\ IF r.ret
               THEN /\ Goto(i, "add", [rnd EXCEPT !.aggregator = agg], ob)
                    /\ Shared(SpinLock_lock(unprocessed), nextId, startsSinceClear, FALSE)
               ELSE /\ Resolve(i, Neutral, [rnd EXCEPT !.aggregator = agg], ob)
                    /\ SharedUnchanged

\* the range the block range consumer holds while add is under way in invocation i,
\* as add will record it
InTransit(i) ==
    LET mergedRange == RangeAggregator_merge(round[i].aggregator) IN
    ElementInfo(nextId, EndHeightOf(mergedRange), totalSize(mergedRange))

\* m_blockRangeConsumer returns the new id: add records the element and releases the
\* lock, and CompleteChainBlocksFrom returns Success
addCompleted(i) ==
    /\ pc[i] = "add"
    /\ LET mergedRange == RangeAggregator_merge(round[i].aggregator) IN
       /\ Resolve(i, Success, round[i], [obs[i] EXCEPT !.blocks = Append(@, mergedRange)])
       /\ Shared(SpinLock_unlock(add_emplace(unprocessed, mergedRange, nextId)),
                 (nextId % MaxElementId) + 1, startsSinceClear, FALSE)

\* the peer's replies to blocksFrom(h): an error, no block, or consecutive blocks of
\* its chain that begin at h or, when the peer skips heights, above h
BlocksFromReplies(h) ==
    { [error |-> TRUE, range |-> <<>>] } \cup
    { [error |-> FALSE, range |-> <<>>] } \cup
    { r \in { [error |-> FALSE, range |-> RangeFrom(s, n)] :
                s \in h .. h + MaxReplySkip, n \in 1 .. MaxReplyBlocks } :
        EndHeightOf(r.range) <= PeerTip }

\* the call of futureSupplier(height) that starts ChainBlocksFrom
RequestBlocks(i, h, rnd, ob) ==
    Goto(i, "awaitBlocks", [rnd EXCEPT !.height = h],
         [ob EXCEPT !.calls = Append(@, BlocksFromCall(h))])

\* variant: a failed request completes the pull with the blocks aggregated so far
ChainBlocksFrom_CompletesOnError(i, reply) ==
    /\ pc[i] = "awaitBlocks"
    /\ IF reply.error \/ reply.range = <<>>
       THEN CompleteChainBlocksFrom(i, round[i].aggregator, round[i],
                                    IF reply.error
                                    THEN [obs[i] EXCEPT !.failed = "blocksFrom"]
                                    ELSE obs[i])
       ELSE LET endHeight == EndHeightOf(reply.range)
                agg == RangeAggregator_add(round[i].aggregator, reply.range)
            IN IF round[i].forkDepth <= agg.m_numBlocks
               THEN CompleteChainBlocksFrom(i, agg, round[i], obs[i])
               ELSE /\ RequestBlocks(i, endHeight + 1, [round[i] EXCEPT !.aggregator = agg], obs[i])
                    /\ SharedUnchanged

\* variant: a reply without blocks does not end the pull while the fork depth is not
\* reached: the same height is requested again, until the pull has made
\* MaxForkDepth + 1 calls
ChainBlocksFrom_RetriesOnEmpty(i, reply) ==
    /\ pc[i] = "awaitBlocks"
    /\ IF reply.error
       THEN /\ Resolve(i, Failure, round[i], [obs[i] EXCEPT !.failed = "blocksFrom"])
            /\ SharedUnchanged
       ELSE LET agg == IF reply.range = <<>>
                       THEN round[i].aggregator
                       ELSE RangeAggregator_add(round[i].aggregator, reply.range)
                nextHeight == IF reply.range = <<>>
                              THEN round[i].height
                              ELSE EndHeightOf(reply.range) + 1
            IN IF round[i].forkDepth <= agg.m_numBlocks
                  \/ Len(obs[i].calls) > MaxForkDepth + 1
               THEN CompleteChainBlocksFrom(i, agg, round[i], obs[i])
               ELSE /\ RequestBlocks(i, nextHeight, [round[i] EXCEPT !.aggregator = agg],
                                     obs[i])
                    /\ SharedUnchanged

\* variant: the next request is for the requested height plus the number of blocks
\* of the reply
ChainBlocksFrom_NextFromCount(i, reply) ==
    /\ pc[i] = "awaitBlocks"
    /\ IF reply.error
       THEN /\ Resolve(i, Failure, round[i], [obs[i] EXCEPT !.failed = "blocksFrom"])
            /\ SharedUnchanged
       ELSE IF reply.range = <<>>
       THEN CompleteChainBlocksFrom(i, round[i].aggregator, round[i], obs[i])
       ELSE LET agg == RangeAggregator_add(round[i].aggregator, reply.range)
            IN IF round[i].forkDepth <= agg.m_numBlocks
               THEN CompleteChainBlocksFrom(i, agg, round[i], obs[i])
               ELSE /\ RequestBlocks(i, round[i].height + Len(reply.range),
                                     [round[i] EXCEPT !.aggregator = agg], obs[i])
                    /\ SharedUnchanged

\* the continuation of ChainBlocksFrom on the reply to the outstanding request
ChainBlocksFrom(i, reply) ==
    /\ pc[i] = "awaitBlocks"
    /\ IF reply.error
       THEN /\ Resolve(i, Failure, round[i], [obs[i] EXCEPT !.failed = "blocksFrom"])
            /\ SharedUnchanged
       ELSE IF reply.range = <<>>
       THEN CompleteChainBlocksFrom(i, round[i].aggregator, round[i], obs[i])
       ELSE LET endHeight == EndHeightOf(reply.range)
                agg == RangeAggregator_add(round[i].aggregator, reply.range)
            IN IF round[i].forkDepth <= agg.m_numBlocks
               THEN CompleteChainBlocksFrom(i, agg, round[i], obs[i])
               ELSE /\ RequestBlocks(i, endHeight + 1, [round[i] EXCEPT !.aggregator = agg], obs[i])
                    /\ SharedUnchanged

\* the peer answers the outstanding block request of invocation i
OnBlocksFrom(i) ==
    \E reply \in BlocksFromReplies(round[i].height) : ChainBlocksFrom(i, reply)

\* ------------------------------------------------------------------ DefaultChainSynchronizer
syncWithPeer(i, compareResult) ==
    LET rnd == [round[i] EXCEPT !.compareResult = compareResult] IN
    IF compareResult.Code = Remote_Reported_Equal_Chain_Score
    THEN Goto(i, "awaitTransactions", rnd,
              [obs[i] EXCEPT !.calls = Append(@, TransactionsCall)])
    ELSE IF compareResult.Code = Remote_Is_Not_Synced
    THEN RequestBlocks(i, compareResult.CommonBlockHeight + 1,
                       [rnd EXCEPT !.forkDepth = compareResult.ForkDepth,
                                   !.aggregator = RangeAggregator],
                       obs[i])
    ELSE Resolve(i, ToNodeInteractionResult(compareResult.Code), rnd, obs[i])

\* the operands and the result of a shouldStartSync call
GateRecord(u, ret) ==
    [ret |-> ret, numBytes |-> u.m_numBytes, hasPendingSync |-> u.m_hasPendingSync,
     dirty |-> u.m_dirty]

\* variant: a refused invocation also runs the continuation that calls clearPendingSync
Invoke_ReleasesOnRefusal(i) ==
    /\ pc[i] = "idle"
    /\ SpinLock_free(unprocessed)
    /\ LET r == shouldStartSync(unprocessed)
           ob == [obs[i] EXCEPT !.gate = << GateRecord(unprocessed, r.ret) >>]
       IN /\ IF r.ret
             THEN Begin(i, ob)
             ELSE Goto(i, "clearPendingSync", [round[i] EXCEPT !.result = Neutral], ob)
          /\ Shared(r.u, nextId, IF r.ret THEN startsSinceClear + 1 ELSE startsSinceClear, FALSE)

\* operator(): the gate
Invoke(i) ==
    /\ pc[i] = "idle"
    /\ SpinLock_free(unprocessed)
    /\ LET r == shouldStartSync(unprocessed)
           ob == [obs[i] EXCEPT !.gate = << GateRecord(unprocessed, r.ret) >>]
       IN IF r.ret
          THEN /\ Begin(i, ob)
               /\ Shared(r.u, nextId, startsSinceClear + 1, FALSE)
          ELSE /\ Finish(i, [round[i] EXCEPT !.result = Neutral], ob)
               /\ Shared(r.u, nextId, startsSinceClear, FALSE)

\* variant: the comparison is made whether or not elements are in flight
compareChains_AlwaysCompares(i) ==
    /\ pc[i] = "compareChains"
    /\ Goto(i, "awaitCompare", round[i], [obs[i] EXCEPT !.calls = Append(@, CompareCall)])
    /\ SharedUnchanged

\* compareChains: the read of empty(), and the call of CompareChains when it is true
compareChains(i) ==
    /\ pc[i] = "compareChains"
    /\ SpinLock_free(unprocessed)
    /\ IF empty(unprocessed)
       THEN Goto(i, "awaitCompare", round[i], [obs[i] EXCEPT !.calls = Append(@, CompareCall)])
       ELSE Goto(i, "maxHeight", round[i], obs[i])
    /\ SharedUnchanged

\* compareChains: the read of maxHeight(), the synthesized result and its dispatch
compareChainsFastPath(i) ==
    /\ pc[i] = "maxHeight"
    /\ SpinLock_free(unprocessed)
    /\ syncWithPeer(i, CompareChainsResult(Remote_Is_Not_Synced, maxHeight(unprocessed), 0))
    /\ SharedUnchanged

\* the results of a real chain comparison: an error, or a verdict
CompareChainsReplies ==
    { [error |-> TRUE, result |-> NoCompareResult] } \cup
    { [error |-> FALSE, result |-> CompareChainsResult(code, 0, 0)] :
        code \in ChainComparisonCode \ {Remote_Is_Not_Synced} } \cup
    { [error |-> FALSE, result |-> CompareChainsResult(Remote_Is_Not_Synced, h, d)] :
        h \in 0 .. MaxCommonHeight, d \in 0 .. MaxForkDepth }

\* the continuation of operator() on the comparison's result
OnCompareChains(i, reply) ==
    /\ pc[i] = "awaitCompare"
    /\ IF reply.error
       THEN Resolve(i, Failure, round[i], [obs[i] EXCEPT !.failed = "compareChains"])
       ELSE syncWithPeer(i, reply.result)
    /\ SharedUnchanged

\* the peer's replies to unconfirmedTransactions: an error, or a range of n transactions
TransactionsReplies ==
    { [error |-> TRUE, size |-> 0] } \cup
    { [error |-> FALSE, size |-> n] : n \in 0 .. MaxTransactions }

\* variant: the range is handed to the transaction range consumer before the future's
\* get(), so a failed request hands over an empty range
OnTransactions_ForwardsBeforeGet(i, reply) ==
    /\ pc[i] = "awaitTransactions"
    /\ IF reply.error
       THEN Resolve(i, Failure, round[i],
                    [obs[i] EXCEPT !.failed = "unconfirmedTransactions",
                                   !.txs = Append(@, reply.size)])
       ELSE Resolve(i, Neutral, round[i], [obs[i] EXCEPT !.txs = Append(@, reply.size)])
    /\ SharedUnchanged

\* the continuation of syncWithPeer on the unconfirmed transactions
OnTransactions(i, reply) ==
    /\ pc[i] = "awaitTransactions"
    /\ IF reply.error
       THEN Resolve(i, Failure, round[i], [obs[i] EXCEPT !.failed = "unconfirmedTransactions"])
       ELSE Resolve(i, Neutral, round[i], [obs[i] EXCEPT !.txs = Append(@, reply.size)])
    /\ SharedUnchanged

\* the last continuation of operator(): mark the current sync as completed
OnCompleted(i) ==
    /\ pc[i] = "clearPendingSync"
    /\ SpinLock_free(unprocessed)
    /\ Finish(i, round[i], [obs[i] EXCEPT !.clears = @ + 1])
    /\ Shared(clearPendingSync(unprocessed), nextId, 0, FALSE)

\* remove called while the queue is empty: m_elements.front() is undefined, and the
\* call either throws on the id it reads or goes on with the NumBytes it reads
remove_OnEmptyQueue(u, status) ==
    { [threw |-> TRUE, u |-> u] } \cup
    { [threw |-> FALSE,
       u |-> LET popped == [u EXCEPT !.m_numBytes = n] IN
             [popped EXCEPT !.m_dirty = hasPendingOperation(popped) /\ Normal # status]] :
        n \in 0 .. m_maxSize }

\* the completion callback returns: r is what its remove did
Completed(r, status) ==
    /\ unprocessed' = r.u
    /\ thrown' = r.threw
    /\ abortPending' =
          (~Quiescent(r.u)
              /\ (abortPending \/ (~r.threw /\ Normal # status /\ hasPendingOperation(r.u))))
    /\ UNCHANGED <<nextId, startsSinceClear, pc, round, obs, last>>

\* the disruptor completes the oldest element it holds and calls the callback add
\* registered for it: the head of the queue or, with an empty queue, the element of an
\* add that is under way
CompletionCallback(status) ==
    /\ SpinLock_free(unprocessed)
    /\ IF unprocessed.m_elements # <<>>
       THEN Completed(remove(unprocessed, Head(unprocessed.m_elements).Id, status), status)
       ELSE /\ \E i \in Invokers : pc[i] = "add"
            /\ \E r \in remove_OnEmptyQueue(unprocessed, status) : Completed(r, status)

\* the disruptor completes an element that is not the oldest one it holds
OutOfOrderCompletionCallback(id, status) ==
    /\ SpinLock_free(unprocessed)
    /\ unprocessed.m_elements # <<>>
    /\ id # Head(unprocessed.m_elements).Id
    /\ \E k \in 2 .. Len(unprocessed.m_elements) : unprocessed.m_elements[k].Id = id
    /\ Completed(remove(unprocessed, id, status), status)

Next ==
    \/ \E i \in Invokers : Invoke(i)
    \/ \E i \in Invokers : compareChains(i)
    \/ \E i \in Invokers : compareChainsFastPath(i)
    \/ \E i \in Invokers : \E reply \in CompareChainsReplies : OnCompareChains(i, reply)
    \/ \E i \in Invokers : OnBlocksFrom(i)
    \/ \E i \in Invokers : addCompleted(i)
    \/ \E i \in Invokers : \E reply \in TransactionsReplies : OnTransactions(i, reply)
    \/ \E i \in Invokers : OnCompleted(i)
    \/ \E status \in CompletionStatus : CompletionCallback(status)
    \/ \E id \in 1 .. MaxElementId : \E status \in CompletionStatus :
          OutOfOrderCompletionCallback(id, status)

Spec == Init /\ [][Next]_vars

\* every peer request resolves, every continuation that is ready runs, and the
\* disruptor completes every element it was handed; nothing obliges a caller to
\* invoke the synchronizer
Fairness ==
    /\ \A i \in Invokers :
          /\ WF_vars(compareChains(i))
          /\ WF_vars(compareChainsFastPath(i))
          /\ WF_vars(\E reply \in CompareChainsReplies : OnCompareChains(i, reply))
          /\ WF_vars(OnBlocksFrom(i))
          /\ WF_vars(addCompleted(i))
          /\ WF_vars(\E reply \in TransactionsReplies : OnTransactions(i, reply))
          /\ WF_vars(OnCompleted(i))
    /\ WF_vars(\E status \in CompletionStatus : CompletionCallback(status))

FairSpec == Init /\ [][Next]_vars /\ Fairness

\* ------------------------------------------------------------------ properties
\* the invocations under way, and the one that resolved last
Observation(i) == [pc |-> pc[i], round |-> round[i], obs |-> obs[i]]
LastObservation == [pc |-> "done", round |-> last.round, obs |-> last.obs]
Observed == { Observation(i) : i \in Invokers } \cup { LastObservation }

\* shouldStartSync returned true / false to the invocation
Started(o) == o.obs.gate # <<>> /\ o.obs.gate[1].ret
Refused(o) == o.obs.gate # <<>> /\ ~o.obs.gate[1].ret

\* invocation i is between its successful shouldStartSync and its clearPendingSync
InRound(i) == pc[i] # "idle"

\* the invocation passed the gate and its inner future has resolved
Resolved(o) == Started(o) /\ o.pc \in {"clearPendingSync", "done"}

\* the invocation requested blocks
Pulled(o) == \E k \in 1 .. Len(o.obs.calls) : o.obs.calls[k].api = "blocksFrom"

\* the end height of the queue's tail element, Height(0) for an empty queue
TailEndHeight ==
    IF unprocessed.m_elements = <<>>
    THEN 0
    ELSE unprocessed.m_elements[Len(unprocessed.m_elements)].EndHeight

\* C1: for every interleaving of concurrent invocations, at most one invocation is
\* between a successful shouldStartSync and its clearPendingSync, and shouldStartSync
\* returned true at most once since the last clearPendingSync
C1_AtMostOneRound ==
    /\ Cardinality({ i \in Invokers : InRound(i) }) <= 1
    /\ startsSinceClear <= 1

\* an invocation was refused by the gate, with bytes below the cap and dirty clear,
\* because of a pending sync, and a round is in progress with a peer call made
C1_Witness ==
    /\ \E i \in Invokers : InRound(i) /\ obs[i].calls # <<>>
    /\ Refused(LastObservation)
    /\ last.obs.gate[1].hasPendingSync
    /\ last.obs.gate[1].numBytes < m_maxSize
    /\ ~last.obs.gate[1].dirty

\* C2: in a round that passed the gate, m_hasPendingSync is set while the round makes
\* its peer calls, and clearPendingSync is called exactly once, when the round has its
\* result (Success, Neutral or Failure): never before, never twice
C2_SetBeforeCallsClearedOnce ==
    /\ \A i \in Invokers :
          InRound(i) =>
              /\ Started(Observation(i))
              /\ unprocessed.m_hasPendingSync
              /\ obs[i].clears = 0
    /\ \A o \in Observed : o.obs.calls # <<>> => Started(o)
    /\ Started(LastObservation) =>
          /\ last.obs.clears = 1
          /\ last.round.result \in NodeInteractionResult

\* a round has completed with Failure after two peer calls and one clearPendingSync
C2_Witness ==
    /\ Started(LastObservation)
    /\ last.obs.clears = 1
    /\ last.round.result = Failure
    /\ Len(last.obs.calls) >= 2

\* C3: once a remove carried a non-Normal status while an operation was pending,
\* m_dirty stays true and shouldStartSync returns false until m_numBytes is 0 and
\* m_hasPendingSync is false
C3_DirtyUntilQuiescence ==
    abortPending => (unprocessed.m_dirty /\ ~shouldStartSync(unprocessed).ret)

\* C4: after a remove carried a non-Normal status while an operation was pending, no
\* range is handed to the block range consumer before quiescence is reached
C4_NoHandoffBeforeQuiescence ==
    [][nextId' # nextId => ~abortPending]_vars

\* C5: m_numBytes is the sum of NumBytes over the queue; a handoff appends one element
\* and adds exactly the handed range's total size, a completion pops the head and
\* subtracts exactly its NumBytes
C5_NumBytesIsSum ==
    /\ [](unprocessed.m_numBytes = SumBytes(unprocessed.m_elements))
    /\ [][ /\ nextId' # nextId =>
                \E i \in Invokers :
                    /\ Len(obs'[i].blocks) = Len(obs[i].blocks) + 1
                    /\ unprocessed'.m_numBytes = unprocessed.m_numBytes
                          + totalSize(obs'[i].blocks[Len(obs'[i].blocks)])
                    /\ Len(unprocessed'.m_elements) = Len(unprocessed.m_elements) + 1
           /\ Len(unprocessed'.m_elements) < Len(unprocessed.m_elements) =>
                /\ unprocessed'.m_elements = Tail(unprocessed.m_elements)
                /\ unprocessed'.m_numBytes
                      = unprocessed.m_numBytes - Head(unprocessed.m_elements).NumBytes
         ]_vars

\* elements have been added and removed: the first element handed off has left the
\* queue and a later one, of more than one block, is in flight
C5_Witness ==
    /\ unprocessed.m_elements # <<>>
    /\ Head(unprocessed.m_elements).Id >= 2
    /\ unprocessed.m_numBytes >= 2 * BlockBytes

\* C6: shouldStartSync returns true exactly when m_numBytes < m_maxSize and neither
\* m_hasPendingSync nor m_dirty is set, and then only sets m_hasPendingSync; in every
\* other case it returns false and changes nothing
C6_ShouldStartSyncExact ==
    /\ [](\A o \in Observed :
            o.obs.gate # <<>> =>
                LET g == o.obs.gate[1] IN
                g.ret = (g.numBytes < m_maxSize /\ ~g.hasPendingSync /\ ~g.dirty))
    /\ [][ /\ \A i \in Invokers :
                (obs[i].gate = <<>> /\ obs'[i].gate # <<>>) =>
                    unprocessed' = [unprocessed EXCEPT !.m_hasPendingSync = TRUE]
           /\ (last' # last /\ Refused(LastObservation)') => unprocessed' = unprocessed
         ]_vars

\* shouldStartSync returned false with m_numBytes equal to m_maxSize, no pending sync
\* and dirty clear
C6_Witness ==
    /\ Refused(LastObservation)
    /\ last.obs.gate[1].numBytes = m_maxSize
    /\ ~last.obs.gate[1].hasPendingSync
    /\ ~last.obs.gate[1].dirty

\* C7: an invocation refused by the gate resolves Neutral at once, makes no peer call,
\* hands nothing to either consumer and never calls clearPendingSync, so while a round
\* is in progress m_hasPendingSync stays set
C7_RefusedInvocationDoesNothing ==
    /\ \A i \in Invokers : ~Refused(Observation(i))
    /\ Refused(LastObservation) =>
          /\ last.round = [NewRound EXCEPT !.result = Neutral]
          /\ last.obs.calls = <<>>
          /\ last.obs.blocks = <<>>
          /\ last.obs.txs = <<>>
          /\ last.obs.clears = 0
    /\ \A j \in Invokers : InRound(j) => unprocessed.m_hasPendingSync

\* an invocation was refused because a sync was pending, and a round is in progress
\* with a peer request outstanding
C7_Witness ==
    /\ Refused(LastObservation)
    /\ last.obs.gate[1].hasPendingSync
    /\ \E j \in Invokers : pc[j] \in {"awaitCompare", "awaitBlocks", "awaitTransactions"}

\* C8: when the chain comparison, a block request (first or later) or the unconfirmed
\* transactions request fails, the round resolves Failure, hands nothing to either
\* consumer, and its clearPendingSync leaves m_hasPendingSync false
C8_PeerErrorsDemotedToFailure ==
    /\ [](\A o \in Observed :
            o.obs.failed # "none" =>
                /\ Resolved(o)
                /\ o.round.result = Failure
                /\ o.obs.blocks = <<>>
                /\ o.obs.txs = <<>>
                /\ o.pc = "done" => o.obs.clears = 1)
    /\ [][\A i \in Invokers :
            (pc[i] = "clearPendingSync" /\ pc'[i] = "idle") =>
                ~unprocessed'.m_hasPendingSync]_vars

\* a block request failed after an earlier reply had put blocks in the aggregator,
\* and the round has completed
C8_Witness ==
    /\ last.obs.failed = "blocksFrom"
    /\ last.round.aggregator.m_numBlocks > 0
    /\ last.obs.clears = 1

\* C9: a resolved round that pulled blocks has result Success exactly when it handed
\* one range, the merge of its aggregator, to the block range consumer; with an empty
\* aggregator, or when add refused, it is Neutral and nothing was handed; no round
\* hands more than one range
C9_SuccessIffOneHandoff ==
    \A o \in Observed :
        /\ Len(o.obs.blocks) <= 1
        /\ (Resolved(o) /\ Pulled(o)) =>
              /\ o.round.result = Success <=> Len(o.obs.blocks) = 1
              /\ Len(o.obs.blocks) = 1 =>
                    o.obs.blocks[1] = MergeRanges(o.round.aggregator.m_ranges)
              /\ (o.obs.failed = "none" /\ o.obs.blocks = <<>>) => o.round.result = Neutral
              /\ (o.obs.failed = "none" /\ o.round.aggregator.m_numBlocks = 0) =>
                    o.obs.blocks = <<>>

\* a pull completed with blocks in its aggregator and add refused them: Neutral, no
\* handoff
C9_Witness ==
    /\ Resolved(LastObservation) /\ Pulled(LastObservation)
    /\ last.obs.failed = "none"
    /\ last.round.aggregator.m_numBlocks > 0
    /\ last.obs.blocks = <<>>
    /\ last.round.result = Neutral

\* C10: at the compare step, with elements in flight no chain comparison is requested
\* and the round goes on as Remote_Is_Not_Synced with the common height maxHeight()
\* returns and fork depth 0, its first block request being for that height + 1; with
\* no element in flight the comparison is requested
C10_FastPath ==
    /\ [][\A i \in Invokers :
            (pc[i] = "compareChains" /\ pc'[i] # "compareChains") =>
                IF unprocessed.m_elements = <<>>
                THEN pc'[i] = "awaitCompare" /\ obs'[i].calls = <<CompareCall>>
                ELSE pc'[i] = "maxHeight" /\ obs'[i].calls = <<>>
         ]_vars
    /\ [][\A i \in Invokers :
            (pc[i] = "maxHeight" /\ pc'[i] # "maxHeight") =>
                /\ pc'[i] = "awaitBlocks"
                /\ round'[i].compareResult
                      = CompareChainsResult(Remote_Is_Not_Synced, TailEndHeight, 0)
                /\ round'[i].forkDepth = 0
                /\ obs'[i].calls = <<BlocksFromCall(TailEndHeight + 1)>>
         ]_vars

\* a round took the fast path over an element in flight: no comparison was requested
\* and its first request is for the height after the queue's tail
C10_Witness ==
    \E i \in Invokers :
        /\ pc[i] = "awaitBlocks"
        /\ obs[i].calls = <<BlocksFromCall(TailEndHeight + 1)>>
        /\ TailEndHeight > 0
        /\ round[i].compareResult.ForkDepth = 0

\* the comparison's verdict the invocation dispatched on
Verdict(o) == o.round.compareResult.Code

\* C11: a round whose verdict is Remote_Reported_Equal_Chain_Score requests the
\* unconfirmed transactions once and no blocks; when the request succeeds the round
\* hands one range, the one the peer returned, to the transaction range consumer and
\* resolves Neutral; when it fails nothing is handed over and the round resolves
\* Failure; either way its clearPendingSync leaves m_hasPendingSync false
C11_EqualScorePullsTransactions ==
    /\ [](\A o \in Observed :
            Verdict(o) = Remote_Reported_Equal_Chain_Score =>
                /\ o.obs.calls = <<CompareCall, TransactionsCall>>
                /\ o.obs.blocks = <<>>
                /\ o.pc = "awaitTransactions" \/ Resolved(o)
                /\ o.pc = "awaitTransactions" => o.obs.txs = <<>>
                /\ (Resolved(o) /\ o.obs.failed = "none") =>
                      Len(o.obs.txs) = 1 /\ o.round.result = Neutral
                /\ (Resolved(o) /\ o.obs.failed # "none") =>
                      /\ o.obs.failed = "unconfirmedTransactions"
                      /\ o.obs.txs = <<>>
                      /\ o.round.result = Failure
                /\ o.pc = "done" => o.obs.clears = 1)
    /\ [][\A i \in Invokers :
            (pc[i] = "clearPendingSync" /\ pc'[i] = "idle"
                /\ Verdict(Observation(i)) = Remote_Reported_Equal_Chain_Score) =>
                    ~unprocessed'.m_hasPendingSync /\ last'.obs.clears = 1]_vars

\* a round with verdict Remote_Reported_Equal_Chain_Score got a range of transactions,
\* handed it over and has completed
C11_Witness ==
    /\ Verdict(LastObservation) = Remote_Reported_Equal_Chain_Score
    /\ last.obs.txs = <<MaxTransactions>>
    /\ last.round.result = Neutral
    /\ last.obs.clears = 1

\* C12: a round whose verdict is neither Remote_Reported_Equal_Chain_Score nor
\* Remote_Is_Not_Synced has resolved on the verdict: it requested no blocks and no
\* transactions, handed nothing to either consumer, and its result is Neutral for
\* Remote_Reported_Lower_Chain_Score and Failure for every other code
C12_OtherVerdictsResolveAtOnce ==
    \A o \in Observed :
        Verdict(o) \in ChainComparisonCode
                        \ {Remote_Reported_Equal_Chain_Score, Remote_Is_Not_Synced} =>
            /\ Resolved(o)
            /\ o.obs.calls = <<CompareCall>>
            /\ o.obs.blocks = <<>>
            /\ o.obs.txs = <<>>
            /\ o.obs.failed = "none"
            /\ o.round.result
                  = IF Verdict(o) = Remote_Reported_Lower_Chain_Score THEN Neutral ELSE Failure

\* a round whose verdict was Remote_Is_Forked has completed with Failure
C12_Witness ==
    /\ Verdict(LastObservation) = Remote_Is_Forked
    /\ last.round.result = Failure
    /\ last.obs.calls = <<CompareCall>>
    /\ last.obs.clears = 1

\* shouldStartSync would return true
GateOpen == shouldStartSync(unprocessed).ret

\* nothing is in flight, no sync is pending and m_dirty is false
QuiescentClean == Quiescent(unprocessed) /\ ~unprocessed.m_dirty

\* every started round resolves and its clearPendingSync leaves m_hasPendingSync false
RoundsResolve ==
    \A i \in Invokers : InRound(i) ~> (~InRound(i) /\ ~unprocessed.m_hasPendingSync)

\* C13 as stated: under the fairness of FairSpec every started round resolves and
\* releases the gate, and the system always reaches again a state with
\* m_hasPendingSync false, m_dirty false and m_numBytes 0
C13_EventuallyQuiescent ==
    /\ RoundsResolve
    /\ []<>QuiescentClean

\* C13 amended: under the fairness of FairSpec every started round resolves and
\* releases the gate, the system always reaches again a state in which
\* shouldStartSync returns true, and once no round is started any more it stays in a
\* state with m_hasPendingSync false, m_dirty false and m_numBytes 0
C13_RoundsResolveAndGateReopens ==
    /\ RoundsResolve
    /\ []<>GateOpen
    /\ (<>[](\A i \in Invokers : ~InRound(i))) => <>[]QuiescentClean

\* a round handed a range over, resolved and released the gate, the range has been
\* completed, and the gate is open again with nothing in flight
C13_Witness ==
    /\ Started(LastObservation)
    /\ Len(last.obs.blocks) = 1
    /\ last.obs.clears = 1
    /\ QuiescentClean
    /\ GateOpen

\* C14: in every reachable state m_dirty implies that an operation is pending
\* (m_numBytes > 0 or m_hasPendingSync): with an empty queue and no pending sync
\* m_dirty is false
C14_DirtyImpliesPending ==
    unprocessed.m_dirty => (unprocessed.m_numBytes > 0 \/ unprocessed.m_hasPendingSync)

\* the last element in flight was completed with a non-Normal status while a sync is
\* pending: m_dirty is true on an empty queue
C14_Witness ==
    /\ unprocessed.m_dirty
    /\ unprocessed.m_numBytes = 0
    /\ unprocessed.m_elements = <<>>
    /\ unprocessed.m_hasPendingSync

\* C15: a remove that pops the head with status leaves m_dirty equal to
\* ((m_numBytes > 0 after the pop) or m_hasPendingSync) and status # Normal, whatever
\* m_dirty was before, and leaves m_hasPendingSync as it was
C15_RemoveSetsDirty ==
    [][\A status \in CompletionStatus :
          CompletionCallback(status) =>
              /\ unprocessed'.m_dirty
                    = ((unprocessed'.m_numBytes > 0 \/ unprocessed'.m_hasPendingSync)
                        /\ status # Normal)
              /\ unprocessed'.m_hasPendingSync = unprocessed.m_hasPendingSync
      ]_vars

\* a remove with a non-Normal status had set m_dirty, and a later remove with status
\* Normal has reset it while a sync is still pending
C15_Witness ==
    /\ abortPending
    /\ ~unprocessed.m_dirty
    /\ unprocessed.m_hasPendingSync
    /\ unprocessed.m_elements = <<>>

\* C16: a remove whose id is not the id of the queue's head throws and leaves the
\* queue, m_numBytes, m_hasPendingSync and m_dirty as they were; an element leaves the
\* queue only by a remove with the head's id, which pops the head
C16_RemoveRejectsWrongId ==
    [][ /\ \A id \in 1 .. MaxElementId : \A status \in CompletionStatus :
              OutOfOrderCompletionCallback(id, status) =>
                  /\ thrown'
                  /\ unprocessed' = unprocessed
        /\ unprocessed'.m_elements # unprocessed.m_elements =>
              \/ /\ unprocessed.m_elements # <<>>
                 /\ unprocessed'.m_elements = Tail(unprocessed.m_elements)
                 /\ ~thrown'
                 /\ \E status \in CompletionStatus : CompletionCallback(status)
              \/ /\ Len(unprocessed'.m_elements) = Len(unprocessed.m_elements) + 1
                 /\ \E i \in Invokers : addCompleted(i)
      ]_vars

\* the callback of the second of two queued elements ran first: its remove threw and
\* both elements are still queued
C16_Witness ==
    /\ thrown
    /\ Len(unprocessed.m_elements) = 2
    /\ unprocessed.m_numBytes = SumBytes(unprocessed.m_elements)

\* C17: add called while m_dirty is set returns false: the block range consumer is not
\* invoked and the queue, m_numBytes, m_hasPendingSync and m_dirty stay as they were;
\* called while m_dirty is clear it invokes the consumer once, appends at the tail one
\* ElementInfo with the id the consumer returned, the height of the range's last block
\* and the range's total size, and returns true
C17_AddRefusedWhenDirty ==
    [][\A i \in Invokers :
          /\ (pc[i] = "awaitBlocks" /\ pc'[i] # "awaitBlocks"
                  /\ obs'[i].failed = "none" /\ round'[i].aggregator.m_numBlocks > 0) =>
                IF unprocessed.m_dirty
                THEN /\ pc'[i] = "clearPendingSync"
                     /\ round'[i].result = Neutral
                     /\ obs'[i].blocks = <<>>
                     /\ nextId' = nextId
                     /\ unprocessed' = unprocessed
                ELSE /\ pc'[i] = "add"
                     /\ obs'[i].blocks = <<>>
                     /\ nextId' = nextId
                     /\ unprocessed' = [unprocessed EXCEPT !.m_spinLock = TRUE]
          /\ (pc[i] = "add" /\ pc'[i] # "add") =>
                /\ pc'[i] = "clearPendingSync"
                /\ round'[i].result = Success
                /\ Len(obs'[i].blocks) = 1
                /\ nextId' # nextId
                /\ LET range == obs'[i].blocks[1] IN
                   unprocessed' =
                       [unprocessed EXCEPT
                           !.m_spinLock = FALSE,
                           !.m_numBytes = @ + Len(range) * BlockBytes,
                           !.m_elements =
                               Append(@, [Id |-> nextId, EndHeight |-> range[Len(range)],
                                          NumBytes |-> Len(range) * BlockBytes])]
      ]_vars

\* add has just refused the blocks of a pull because m_dirty is set
C17_Witness ==
    \E i \in Invokers :
        /\ pc[i] = "clearPendingSync"
        /\ Pulled(Observation(i))
        /\ obs[i].failed = "none"
        /\ round[i].aggregator.m_numBlocks > 0
        /\ obs[i].blocks = <<>>
        /\ unprocessed.m_dirty

\* C18: whatever the interleaving of add with the completion callbacks, add holds the
\* lock from before the block range consumer gets the range until the element is
\* recorded, and a completion callback is processed only while no add is in between:
\* the element it completes is the head of the queue, its bytes counted in m_numBytes
C18_CallbackAfterRecord ==
    /\ [](\A i \in Invokers : pc[i] = "add" => unprocessed.m_spinLock)
    /\ [][\A status \in CompletionStatus :
            CompletionCallback(status) =>
                /\ \A i \in Invokers : pc[i] # "add"
                /\ unprocessed.m_elements # <<>>
                /\ unprocessed.m_numBytes >= Head(unprocessed.m_elements).NumBytes
                /\ ~thrown'
         ]_vars

\* the block range consumer holds a range whose add has not recorded it yet, and
\* nothing older is queued: the element's completion callback is the next to run
C18_Witness ==
    \E i \in Invokers :
        /\ pc[i] = "add"
        /\ unprocessed.m_spinLock
        /\ unprocessed.m_elements = <<>>
        /\ InTransit(i).NumBytes > 0

\* the heights of the invocation's block requests, in order
BlockRequests(o) ==
    LET IsBlocksFrom(c) == c.api = "blocksFrom"
        requests == SelectSeq(o.obs.calls, IsBlocksFrom)
    IN [k \in 1 .. Len(requests) |-> requests[k].height]

\* C19: in a pull the first block request is for the common block height + 1 and every
\* later one for the height after the last block of the reply before it; after a reply
\* with blocks the pull goes on exactly while the blocks aggregated so far are fewer
\* than the fork depth, however few blocks the reply had, and it stops on the first
\* reply without blocks
C19_PullFollowsReplies ==
    /\ [](\A o \in Observed :
            LET requests == BlockRequests(o)
                replies == o.round.aggregator.m_ranges
            IN requests # <<>> =>
                /\ Verdict(o) = Remote_Is_Not_Synced
                /\ requests[1] = o.round.compareResult.CommonBlockHeight + 1
                /\ Len(requests) <= Len(replies) + 1
                /\ \A k \in 2 .. Len(requests) :
                      requests[k] = replies[k - 1][Len(replies[k - 1])] + 1)
    /\ [][\A i \in Invokers : \A reply \in BlocksFromReplies(round[i].height) :
            (ChainBlocksFrom(i, reply) /\ ~reply.error) =>
                LET count == round[i].aggregator.m_numBlocks + Len(reply.range)
                    goesOn == reply.range # <<>>
                                /\ count < round[i].compareResult.ForkDepth
                IN /\ goesOn <=> pc'[i] = "awaitBlocks"
                   /\ goesOn => Len(BlockRequests(Observation(i))')
                                  = Len(BlockRequests(Observation(i))) + 1
                   /\ ~goesOn => obs'[i].calls = obs[i].calls
         ]_vars

\* a pull's first reply skipped a height and had one block, fewer than the fork depth
\* and than the peer may send: the pull went on, and its second request is for the
\* height after that block
C19_Witness ==
    \E i \in Invokers :
        LET requests == BlockRequests(Observation(i))
            replies == round[i].aggregator.m_ranges
        IN /\ pc[i] = "awaitBlocks"
           /\ Len(requests) = 2
           /\ replies = << <<requests[1] + 1>> >>
           /\ requests[2] = requests[1] + 2
           /\ MaxReplyBlocks > 1

\* the number of blocks in the first k of the ranges
RECURSIVE BlocksBefore(_, _)
BlocksBefore(ranges, k) ==
    IF k = 0 THEN 0 ELSE BlocksBefore(ranges, k - 1) + Len(ranges[k])

\* C20: the range a pull hands to the block range consumer is its replies with blocks,
\* one after the other in the order they came; when every reply began at the height
\* requested, it is the consecutive blocks from the first requested height on, as
\* many as were aggregated, whatever the sizes of the replies were
C20_HandedRangeIsConcatenation ==
    \A o \in Observed :
        o.obs.blocks # <<>> =>
            LET handed == o.obs.blocks[1]
                replies == o.round.aggregator.m_ranges
                requests == BlockRequests(o)
            IN /\ replies # <<>>
               /\ Len(replies) <= Len(requests)
               /\ Len(handed) = BlocksBefore(replies, Len(replies))
               /\ \A k \in 1 .. Len(replies) :
                     /\ replies[k] # <<>>
                     /\ \A j \in 1 .. Len(replies[k]) :
                           handed[BlocksBefore(replies, k - 1) + j] = replies[k][j]
               /\ (\A k \in 1 .. Len(replies) : replies[k][1] = requests[k]) =>
                     handed = RangeFrom(requests[1], o.round.aggregator.m_numBlocks)

\* a pull got three consecutive blocks in replies of one and two, and handed them
\* over as one range
C20_Witness ==
    LET h == BlockRequests(LastObservation)[1] IN
    /\ Len(last.obs.blocks) = 1
    /\ last.round.aggregator.m_ranges = << <<h>>, <<h + 1, h + 2>> >>
    /\ last.obs.blocks[1] = <<h, h + 1, h + 2>>
    /\ last.round.result = Success

\* the larger of two numbers
Max(a, b) == IF a >= b THEN a ELSE b

\* C21: a pull with fork depth d makes at most max(1, d) block requests, and it ends:
\* every reply either ends it or adds at least one block while the aggregated blocks
\* stay fewer than d; with d = 0 it makes one request and resolves Neutral on a reply
\* without blocks and Success on a reply with blocks that add accepts
C21_PullIsBounded ==
    /\ [](\A o \in Observed :
            LET requests == BlockRequests(o)
                d == o.round.compareResult.ForkDepth
            IN requests # <<>> =>
                /\ Len(requests) <= Max(1, d)
                /\ (d = 0 /\ Resolved(o) /\ o.obs.failed = "none") =>
                      /\ Len(requests) = 1
                      /\ o.round.aggregator.m_ranges = <<>> => o.round.result = Neutral
                      /\ o.obs.blocks # <<>> => o.round.result = Success
                      /\ o.round.result = Success =>
                            /\ Len(o.round.aggregator.m_ranges) = 1
                            /\ o.obs.blocks = o.round.aggregator.m_ranges)
    /\ [][\A i \in Invokers :
            (pc[i] = "awaitBlocks" /\ pc'[i] = "awaitBlocks" /\ obs'[i] # obs[i]) =>
                /\ round'[i].aggregator.m_numBlocks > round[i].aggregator.m_numBlocks
                /\ round'[i].aggregator.m_numBlocks < round[i].compareResult.ForkDepth
         ]_vars

\* a pull with the largest fork depth got one block per reply and has completed after
\* as many requests as the fork depth
C21_Witness ==
    /\ last.round.compareResult.ForkDepth = MaxForkDepth
    /\ Len(BlockRequests(LastObservation)) = MaxForkDepth
    /\ last.round.aggregator.m_numBlocks = MaxForkDepth
    /\ last.round.result = Success

\* the invocation took the fast path of compareChains: it requested blocks without a
\* chain comparison
TookFastPath(o) == o.obs.calls # <<>> /\ o.obs.calls[1].api = "blocksFrom"

\* C22: a round that takes the fast path uses as common height the end height of an
\* element in flight, never Height(0), however its reads of empty() and maxHeight()
\* interleave with the completion callbacks
C22_FastPathHeightIsInFlight ==
    \A o \in Observed :
        TookFastPath(o) =>
            /\ o.round.compareResult.CommonBlockHeight > 0
            /\ o.obs.calls[1].height > 1

\* the smaller of two numbers
Min(a, b) == IF a <= b THEN a ELSE b

\* the largest total size of a merged range that one round hands off: a pull goes on
\* while it has fewer blocks than the fork depth, so its last reply carries it to at
\* most MaxForkDepth - 1 + MaxReplyBlocks blocks, and the peer has PeerTip blocks
LargestRangeBytes ==
    Min(PeerTip, Max(1, MaxForkDepth) - 1 + MaxReplyBlocks) * BlockBytes

\* the bytes in flight without those of the element added last
BytesBeforeTail(u) ==
    u.m_numBytes - u.m_elements[Len(u.m_elements)].NumBytes

\* C23: the byte cap gates the start of a round, not the add: every add finds
\* m_numBytes below m_maxSize and adds the size of its range whatever the sum is, and a
\* refused add is refused for m_dirty; so m_numBytes may pass m_maxSize, by less than
\* the size of the range added last, and stays below m_maxSize + LargestRangeBytes
C23_ByteCapGatesTheRound ==
    /\ [](/\ unprocessed.m_numBytes < m_maxSize + LargestRangeBytes
          /\ \A k \in 1 .. Len(unprocessed.m_elements) :
                unprocessed.m_elements[k].NumBytes <= LargestRangeBytes
          /\ unprocessed.m_elements # <<>> => BytesBeforeTail(unprocessed) < m_maxSize)
    /\ [][\A i \in Invokers :
            /\ (pc[i] = "add" /\ pc'[i] # "add") =>
                  /\ unprocessed.m_numBytes < m_maxSize
                  /\ unprocessed'.m_numBytes =
                        unprocessed.m_numBytes
                            + totalSize(RangeAggregator_merge(round[i].aggregator))
                  /\ round'[i].result = Success
            /\ (pc[i] = "awaitBlocks" /\ pc'[i] \notin {"awaitBlocks", "add"}
                    /\ obs'[i].failed = "none"
                    /\ ~RangeAggregator_empty(round'[i].aggregator)) =>
                  unprocessed.m_dirty
         ]_vars

\* an add has carried m_numBytes over m_maxSize from the largest amount that passes the
\* gate
C23_Witness ==
    /\ unprocessed.m_numBytes > m_maxSize
    /\ BytesBeforeTail(unprocessed) = m_maxSize - 1
    /\ last.round.result = Success
    /\ last.obs.blocks # <<>>
    /\ totalSize(last.obs.blocks[1]) =
          unprocessed.m_elements[Len(unprocessed.m_elements)].NumBytes
====
